---- MODULE Spec2Model ----
(***************************************************************************)
(* Field visitors of dbms/src/Common/FieldVisitors.h: the accurate         *)
(* comparison visitors, the in-place sum visitor and castField.            *)
(*                                                                         *)
(* A Field is a record [kind, v, s, c, elems]:                                *)
(*   kind   the active alternative, named as in the source                 *)
(*   v      the integer payload (mathematical value, magnitude, or id)     *)
(*   s      the scale of a decimal (name id of an aggregate state), else 0 *)
(*   c      the class of a Float64 (finite, nan, +inf, -inf), else ""      *)
(*   elems  the elements of an Array or Tuple, else << >>                  *)
(* The 64-bit integer types are modelled with Bits bits and the 8-bit ones *)
(* with NarrowBits bits; all wrap-around arithmetic is done modulo these.  *)
(*                                                                         *)
(* The event counters of dbms/include/DB/Common/ProfileEvents.h are the    *)
(* array counters, incremented by threads that each run increment().       *)
(***************************************************************************)
EXTENDS Integers, Sequences, FiniteSets, TLC

VARIABLES x, rhs, op, res, ret, dest

vars == <<x, rhs, op, res, ret, dest>>

\* counters   ProfileEvents::counters
\* initial    the counters when the threads start
\* thread     per thread: where it is in increment(), and the arguments of the call
\* completed  per event: the sum of the amounts of the increments that returned
\* issued     the number of calls of increment() so far
VARIABLES counters, initial, thread, completed, issued

pvars == <<counters, initial, thread, completed, issued>>

allvars == <<vars, pvars>>

\* Width standing for the 64-bit types UInt64 / Int64.
Bits == 4
\* Width standing for the 8-bit destination types of castField.
NarrowBits == 2
\* Largest scale of a decimal value of the model.
MaxScale == 1
\* Largest magnitude of a decimal value the sum may produce.
MaxMagnitude == 20
\* Number of distinct payload ids used for UInt128 values.
MaxUUID == 2
\* Number of events, standing for the END of the Event enumeration.
NumEvents == 2
\* Number of threads that call increment().
NumThreads == 2
\* Width standing for the width of size_t.
CounterBits == 2
\* Largest number of calls of increment() in a run.
MaxCalls == 3

RECURSIVE Pow2(_)
Pow2(n) == IF n = 0 THEN 1 ELSE 2 * Pow2(n - 1)

RECURSIVE Pow10(_)
Pow10(n) == IF n = 0 THEN 1 ELSE 10 * Pow10(n - 1)

UInt64Max == Pow2(Bits) - 1
Int64Min  == -Pow2(Bits - 1)
Int64Max  == Pow2(Bits - 1) - 1

\* Classes of a Float64 value (field c); a finite value is v / 2.
Finite == "finite"
NaN    == "nan"
PosInf == "+inf"
NegInf == "-inf"

\* Largest finite Float64 of the model, in halves; a larger sum overflows to infinity.
FloatMax == 4 * Pow2(Bits)
\* Comparison key of the infinities, beyond every finite key.
InfKey   == 8 * Pow2(Bits)

F(k, v, s, e) == [kind |-> k, v |-> v, s |-> s, c |-> "", elems |-> e]

Float(v, c) == [kind |-> "Float64", v |-> v, s |-> 0, c |-> c, elems |-> << >>]

DecimalKinds == {"Decimal32", "Decimal64", "Decimal128"}

Kinds == {"Null", "UInt64", "UInt128", "Int64", "Float64", "String", "Array", "Tuple",
          "AggregateFunctionStateData"} \cup DecimalKinds

IsDecimalField(f) == f.kind \in DecimalKinds

NullField == F("Null", 0, 0, << >>)

UInt64Fields == {F("UInt64", n, 0, << >>) : n \in 0..UInt64Max}
Int64Fields  == {F("Int64", n, 0, << >>) : n \in Int64Min..Int64Max}

\* -2^63, -1.5, -1, 0, 0.5, 1, 2^63, 2^64 and the three non-finite values.
FloatFields ==
    {Float(n, Finite) :
        n \in {2 * Int64Min, -3, -2, 0, 1, 2, 2 * (Int64Max + 1), 2 * (UInt64Max + 1)}}
    \cup {Float(0, c) : c \in {NaN, PosInf, NegInf}}

UInt128Fields == {F("UInt128", n, 0, << >>) : n \in 0..MaxUUID}

\* Strings are ranked lexicographically by v; string 0 is not the text of a UUID.
StringFields == {F("String", n, 0, << >>) : n \in 0..(MaxUUID + 1)}

ElemLists == {<< >>, <<0>>, <<0, 1>>, <<1>>}
ArrayFields == {F("Array", 0, 0, e) : e \in ElemLists}
TupleFields == {F("Tuple", 0, 0, e) : e \in ElemLists}

DecimalFields ==
    {F(k, m, 0, << >>) : k \in DecimalKinds, m \in {-1, 0, 1, UInt64Max}}
    \cup {F(k, m, MaxScale, << >>) : k \in DecimalKinds, m \in {-10, 0, 10, 15}}

\* name id in s, data id in v
AggFields == {F("AggregateFunctionStateData", d, n, << >>) : d \in 0..1, n \in 0..1}

Fields == {NullField} \cup UInt64Fields \cup Int64Fields \cup FloatFields
          \cup UInt128Fields \cup StringFields \cup ArrayFields \cup TupleFields
          \cup DecimalFields \cup AggFields

B(b) == IF b THEN "true" ELSE "false"

BadType == "BAD_TYPE_OF_FIELD"

ParseError == "CANNOT_PARSE_UUID"

(***************************************************************************)
(* Collaborators declared outside FieldVisitors.h.                         *)
(***************************************************************************)

\* Comparison key of a UInt64 / Int64 / non-NaN Float64 value, in halves.
Key(f) ==
    IF f.kind = "Float64"
    THEN (IF f.c = PosInf THEN InfKey ELSE IF f.c = NegInf THEN -InfKey ELSE f.v)
    ELSE 2 * f.v

IsNaN(f) == f.kind = "Float64" /\ f.c = NaN

\* static_cast to the unsigned 64-bit type
ToUnsigned(n) == n % Pow2(Bits)

\* accurate::equalsOp over UInt64, Int64, Float64
equalsOp(a, b) ==
    IF a.kind = "Float64" \/ b.kind = "Float64"
    THEN ~IsNaN(a) /\ ~IsNaN(b) /\ Key(a) = Key(b)
    ELSE IF a.kind = b.kind THEN a.v = b.v
    ELSE IF a.kind = "Int64" THEN a.v >= 0 /\ ToUnsigned(a.v) = b.v
    ELSE b.v >= 0 /\ a.v = ToUnsigned(b.v)

\* accurate::lessOp over UInt64, Int64, Float64
lessOp(a, b) ==
    IF a.kind = "Float64" \/ b.kind = "Float64"
    THEN ~IsNaN(a) /\ ~IsNaN(b) /\ Key(a) < Key(b)
    ELSE IF a.kind = b.kind THEN a.v < b.v
    ELSE IF a.kind = "Int64" THEN a.v < 0 \/ ToUnsigned(a.v) < b.v
    ELSE b.v >= 0 /\ a.v < ToUnsigned(b.v)

\* Float64 operator== and operator<
FloatEq(a, b)   == ~IsNaN(a) /\ ~IsNaN(b) /\ Key(a) = Key(b)
FloatLess(a, b) == ~IsNaN(a) /\ ~IsNaN(b) /\ Key(a) < Key(b)

\* stringToUUID: string 0 does not parse; the others parse, in reverse rank order.
CanParseUUID(str) == str.v >= 1
stringToUUID(str) == F("UInt128", MaxUUID + 1 - str.v, 0, << >>)

\* operator== and operator< of DecimalField: magnitudes after scale alignment
Aligned(d, sc) == d.v * Pow10(sc - d.s)
CommonScale(a, b) == IF a.s > b.s THEN a.s ELSE b.s
DecimalEq(a, b)   == Aligned(a, CommonScale(a, b)) = Aligned(b, CommonScale(a, b))
DecimalLess(a, b) == Aligned(a, CommonScale(a, b)) < Aligned(b, CommonScale(a, b))

\* DecimalField<Decimal128>(n, 0)
Decimal128Of(f) == F("Decimal128", f.v, 0, << >>)

\* operator< of Array and Tuple: lexicographic
RECURSIVE LexLess(_, _)
LexLess(a, b) ==
    IF b = << >> THEN FALSE
    ELSE IF a = << >> THEN TRUE
    ELSE IF Head(a) < Head(b) THEN TRUE
    ELSE IF Head(b) < Head(a) THEN FALSE
    ELSE LexLess(Tail(a), Tail(b))

\* operator== of AggregateFunctionStateData: same function name, same data
AggEq(a, b) == a.s = b.s /\ a.v = b.v

(***************************************************************************)
(* FieldVisitorAccurateEquals                                              *)
(***************************************************************************)

\* cantCompare without the special case of a Null right operand
EqualsCantCompare_AlwaysThrows(l, r) == BadType

EqualsCantCompare(l, r) == IF r.kind = "Null" THEN "false" ELSE BadType

\* the built-in == after the usual arithmetic conversions
EqualsUInt64Int64_Native(l, r) == B(l.v = ToUnsigned(r.v))

EqualsUInt64Int64(l, r) == B(equalsOp(l, r))

\* the answer FieldVisitorAccurateLess gives for this pair
EqualsFloat64Decimal_False(l, r) == "false"

EqualsFloat64Decimal(l, r) == EqualsCantCompare(l, r)

EqualsUInt64(l, r) ==
    CASE r.kind = "Null"    -> EqualsCantCompare(l, r)
      [] r.kind = "UInt64"  -> B(l.v = r.v)
      [] r.kind = "UInt128" -> EqualsCantCompare(l, r)
      [] r.kind = "Int64"   -> EqualsUInt64Int64(l, r)
      [] r.kind = "Float64" -> B(equalsOp(l, r))
      [] r.kind = "String"  -> EqualsCantCompare(l, r)
      [] r.kind = "Array"   -> EqualsCantCompare(l, r)
      [] r.kind = "Tuple"   -> EqualsCantCompare(l, r)
      [] r.kind = "AggregateFunctionStateData" -> EqualsCantCompare(l, r)
      [] IsDecimalField(r)  -> B(DecimalEq(Decimal128Of(l), r))

EqualsInt64(l, r) ==
    CASE r.kind = "Null"    -> EqualsCantCompare(l, r)
      [] r.kind = "UInt64"  -> B(equalsOp(l, r))
      [] r.kind = "UInt128" -> EqualsCantCompare(l, r)
      [] r.kind = "Int64"   -> B(l.v = r.v)
      [] r.kind = "Float64" -> B(equalsOp(l, r))
      [] r.kind = "String"  -> EqualsCantCompare(l, r)
      [] r.kind = "Array"   -> EqualsCantCompare(l, r)
      [] r.kind = "Tuple"   -> EqualsCantCompare(l, r)
      [] r.kind = "AggregateFunctionStateData" -> EqualsCantCompare(l, r)
      [] IsDecimalField(r)  -> B(DecimalEq(Decimal128Of(l), r))

EqualsFloat64(l, r) ==
    CASE r.kind = "Null"    -> EqualsCantCompare(l, r)
      [] r.kind = "UInt64"  -> B(equalsOp(l, r))
      [] r.kind = "UInt128" -> EqualsCantCompare(l, r)
      [] r.kind = "Int64"   -> B(equalsOp(l, r))
      [] r.kind = "Float64" -> B(FloatEq(l, r))
      [] r.kind = "String"  -> EqualsCantCompare(l, r)
      [] r.kind = "Array"   -> EqualsCantCompare(l, r)
      [] r.kind = "Tuple"   -> EqualsCantCompare(l, r)
      [] r.kind = "AggregateFunctionStateData" -> EqualsCantCompare(l, r)
      [] IsDecimalField(r)  -> EqualsFloat64Decimal(l, r)

EqualsNull(l, r) == B(r.kind = "Null")

EqualsString(l, r) ==
    IF r.kind = "String" THEN B(l.v = r.v)
    ELSE IF r.kind = "UInt128"
    THEN (IF CanParseUUID(l) THEN B(stringToUUID(l).v = r.v) ELSE ParseError)
    ELSE EqualsCantCompare(l, r)

EqualsUInt128(l, r) ==
    IF r.kind = "UInt128" THEN B(l.v = r.v)
    ELSE IF r.kind = "String"
    THEN (IF CanParseUUID(r) THEN B(l.v = stringToUUID(r).v) ELSE ParseError)
    ELSE EqualsCantCompare(l, r)

EqualsArray(l, r) ==
    IF r.kind = "Array" THEN B(l.elems = r.elems) ELSE EqualsCantCompare(l, r)

EqualsTuple(l, r) ==
    IF r.kind = "Tuple" THEN B(l.elems = r.elems) ELSE EqualsCantCompare(l, r)

EqualsDecimal(l, r) ==
    IF IsDecimalField(r) THEN B(DecimalEq(l, r))
    ELSE IF r.kind \in {"Int64", "UInt64"} THEN B(DecimalEq(l, Decimal128Of(r)))
    ELSE EqualsCantCompare(l, r)

EqualsAggregateFunctionStateData(l, r) ==
    IF r.kind = "AggregateFunctionStateData" THEN B(AggEq(l, r))
    ELSE EqualsCantCompare(l, r)

FieldVisitorAccurateEquals(l, r) ==
    CASE l.kind = "UInt64"  -> EqualsUInt64(l, r)
      [] l.kind = "Int64"   -> EqualsInt64(l, r)
      [] l.kind = "Float64" -> EqualsFloat64(l, r)
      [] l.kind = "Null"    -> EqualsNull(l, r)
      [] l.kind = "String"  -> EqualsString(l, r)
      [] l.kind = "UInt128" -> EqualsUInt128(l, r)
      [] l.kind = "Array"   -> EqualsArray(l, r)
      [] l.kind = "Tuple"   -> EqualsTuple(l, r)
      [] IsDecimalField(l)  -> EqualsDecimal(l, r)
      [] l.kind = "AggregateFunctionStateData" -> EqualsAggregateFunctionStateData(l, r)

(***************************************************************************)
(* FieldVisitorAccurateLess                                                *)
(***************************************************************************)

LessCantCompare(l, r) == BadType

LessUInt64(l, r) ==
    CASE r.kind = "Null"    -> LessCantCompare(l, r)
      [] r.kind = "UInt64"  -> B(l.v < r.v)
      [] r.kind = "UInt128" -> LessCantCompare(l, r)
      [] r.kind = "Int64"   -> B(lessOp(l, r))
      [] r.kind = "Float64" -> B(lessOp(l, r))
      [] r.kind = "String"  -> LessCantCompare(l, r)
      [] r.kind = "Array"   -> LessCantCompare(l, r)
      [] r.kind = "Tuple"   -> LessCantCompare(l, r)
      [] r.kind = "AggregateFunctionStateData" -> LessCantCompare(l, r)
      [] IsDecimalField(r)  -> B(DecimalLess(Decimal128Of(l), r))

LessInt64(l, r) ==
    CASE r.kind = "Null"    -> LessCantCompare(l, r)
      [] r.kind = "UInt64"  -> B(lessOp(l, r))
      [] r.kind = "UInt128" -> LessCantCompare(l, r)
      [] r.kind = "Int64"   -> B(l.v < r.v)
      [] r.kind = "Float64" -> B(lessOp(l, r))
      [] r.kind = "String"  -> LessCantCompare(l, r)
      [] r.kind = "Array"   -> LessCantCompare(l, r)
      [] r.kind = "Tuple"   -> LessCantCompare(l, r)
      [] r.kind = "AggregateFunctionStateData" -> LessCantCompare(l, r)
      [] IsDecimalField(r)  -> B(DecimalLess(Decimal128Of(l), r))

\* the answer FieldVisitorAccurateEquals gives for this pair
LessFloat64Decimal_CantCompare(l, r) == BadType

LessFloat64Decimal(l, r) == "false"

LessFloat64(l, r) ==
    CASE r.kind = "Null"    -> LessCantCompare(l, r)
      [] r.kind = "UInt64"  -> B(lessOp(l, r))
      [] r.kind = "UInt128" -> LessCantCompare(l, r)
      [] r.kind = "Int64"   -> B(lessOp(l, r))
      [] r.kind = "Float64" -> B(FloatLess(l, r))
      [] r.kind = "String"  -> LessCantCompare(l, r)
      [] r.kind = "Array"   -> LessCantCompare(l, r)
      [] r.kind = "Tuple"   -> LessCantCompare(l, r)
      [] r.kind = "AggregateFunctionStateData" -> LessCantCompare(l, r)
      [] IsDecimalField(r)  -> LessFloat64Decimal(l, r)

\* the body of the equals visitor, without the negation
LessNull_AsEquals(l, r) == B(r.kind = "Null")

LessNull(l, r) == B(r.kind # "Null")

LessString(l, r) ==
    IF r.kind = "String" THEN B(l.v < r.v)
    ELSE IF r.kind = "UInt128"
    THEN (IF CanParseUUID(l) THEN B(stringToUUID(l).v < r.v) ELSE ParseError)
    ELSE LessCantCompare(l, r)

LessUInt128(l, r) ==
    IF r.kind = "UInt128" THEN B(l.v < r.v)
    ELSE IF r.kind = "String"
    THEN (IF CanParseUUID(r) THEN B(l.v < stringToUUID(r).v) ELSE ParseError)
    ELSE LessCantCompare(l, r)

LessArray(l, r) ==
    IF r.kind = "Array" THEN B(LexLess(l.elems, r.elems)) ELSE LessCantCompare(l, r)

\* <= in place of <
LessTuple_NotStrict(l, r) ==
    IF r.kind = "Tuple" THEN B(LexLess(l.elems, r.elems) \/ l.elems = r.elems)
    ELSE LessCantCompare(l, r)

LessTuple(l, r) ==
    IF r.kind = "Tuple" THEN B(LexLess(l.elems, r.elems)) ELSE LessCantCompare(l, r)

LessDecimal(l, r) ==
    IF IsDecimalField(r) THEN B(DecimalLess(l, r))
    ELSE IF r.kind \in {"Int64", "UInt64"} THEN B(DecimalLess(l, Decimal128Of(r)))
    ELSE LessCantCompare(l, r)

\* same-kind comparison as in the other templates
LessAggregateFunctionStateData_SameKind(l, r) ==
    IF r.kind = "AggregateFunctionStateData" THEN B(l.v < r.v) ELSE LessCantCompare(l, r)

LessAggregateFunctionStateData(l, r) == LessCantCompare(l, r)

FieldVisitorAccurateLess(l, r) ==
    CASE l.kind = "UInt64"  -> LessUInt64(l, r)
      [] l.kind = "Int64"   -> LessInt64(l, r)
      [] l.kind = "Float64" -> LessFloat64(l, r)
      [] l.kind = "Null"    -> LessNull(l, r)
      [] l.kind = "String"  -> LessString(l, r)
      [] l.kind = "UInt128" -> LessUInt128(l, r)
      [] l.kind = "Array"   -> LessArray(l, r)
      [] l.kind = "Tuple"   -> LessTuple(l, r)
      [] IsDecimalField(l)  -> LessDecimal(l, r)
      [] l.kind = "AggregateFunctionStateData" -> LessAggregateFunctionStateData(l, r)

(***************************************************************************)
(* FieldVisitorSum                                                         *)
(***************************************************************************)

LogicalError == "LOGICAL_ERROR"

SummableKinds == {"UInt64", "Int64", "Float64"} \cup DecimalKinds

\* get<T>(rhs) is defined when T is the active alternative of rhs; the caller of
\* the visitor passes a rhs of the kind of x.
CanGet(k, r) == r.kind = k

Outcome(xf, r) == [x |-> xf, res |-> r]

\* the flag taken before the addition
SumUInt64_FlagBefore(xf, g) ==
    {Outcome(F("UInt64", (xf.v + g.v) % Pow2(Bits), 0, << >>), B(xf.v # 0))}

SumUInt64(xf, g) ==
    LET n == (xf.v + g.v) % Pow2(Bits)
    IN  {Outcome(F("UInt64", n, 0, << >>), B(n # 0))}

\* Signed overflow is undefined: any Int64 may result.
SumInt64(xf, g) ==
    LET n == xf.v + g.v
    IN  IF n \in Int64Min..Int64Max
        THEN {Outcome(F("Int64", n, 0, << >>), B(n # 0))}
        ELSE {Outcome(F("Int64", m, 0, << >>), B(m # 0)) : m \in Int64Min..Int64Max}

\* Float64 operator+=
FloatAdd(a, b) ==
    IF IsNaN(a) \/ IsNaN(b) THEN Float(0, NaN)
    ELSE IF a.c # Finite /\ b.c # Finite
    THEN (IF a.c = b.c THEN Float(0, a.c) ELSE Float(0, NaN))
    ELSE IF a.c # Finite THEN Float(0, a.c)
    ELSE IF b.c # Finite THEN Float(0, b.c)
    ELSE IF a.v + b.v > FloatMax THEN Float(0, PosInf)
    ELSE IF a.v + b.v < -FloatMax THEN Float(0, NegInf)
    ELSE Float(a.v + b.v, Finite)

SumFloat64(xf, g) ==
    LET n == FloatAdd(xf, g)
    IN  {Outcome(n, B(n.c # Finite \/ n.v # 0))}

\* DecimalField operator+=: the magnitudes are added at the common scale
DecimalAdd(a, b) ==
    F(a.kind, Aligned(a, CommonScale(a, b)) + Aligned(b, CommonScale(a, b)),
      CommonScale(a, b), << >>)

SumDecimal(xf, g) ==
    LET n == DecimalAdd(xf, g)
    IN  {Outcome(n, B(n.v # 0))}

\* a silent "result is zero" in place of the exception
SumThrow_ReturnsFalse(xf) == {Outcome(xf, "false")}

SumThrow(xf) == {Outcome(xf, LogicalError)}

FieldVisitorSum(xf, g) ==
    CASE xf.kind = "UInt64"  -> SumUInt64(xf, g)
      [] xf.kind = "Int64"   -> SumInt64(xf, g)
      [] xf.kind = "Float64" -> SumFloat64(xf, g)
      [] IsDecimalField(xf)  -> SumDecimal(xf, g)
      [] OTHER               -> SumThrow(xf)

(***************************************************************************)
(* castField                                                               *)
(***************************************************************************)

DestTypes == {"UInt8", "Int8", "UInt64", "Int64"}

DestBits(d)   == IF d \in {"UInt8", "Int8"} THEN NarrowBits ELSE Bits
DestSigned(d) == d \in {"Int8", "Int64"}
DestMin(d)    == IF DestSigned(d) THEN -Pow2(DestBits(d) - 1) ELSE 0
DestMax(d)    == IF DestSigned(d) THEN Pow2(DestBits(d) - 1) - 1 ELSE Pow2(DestBits(d)) - 1

\* a value of type d, seen as a Field for the accurate comparison
DestValue(d, n) == F(IF DestSigned(d) THEN "Int64" ELSE "UInt64", n, 0, << >>)

\* integer conversion to d: the value modulo 2^width
Wrap(d, n) ==
    LET m == n % Pow2(DestBits(d))
    IN  IF DestSigned(d) /\ m > DestMax(d) THEN m - Pow2(DestBits(d)) ELSE m

Truncate(h) == IF h >= 0 THEN h \div 2 ELSE -((-h) \div 2)

\* static_cast<d>(src): the possible results. A Float64 whose truncated value
\* does not fit d converts with undefined behaviour: any value of d.
StaticCast(d, src) ==
    IF src.kind = "Float64"
    THEN (IF src.c = Finite /\ Truncate(src.v) \in DestMin(d)..DestMax(d)
          THEN {Truncate(src.v)}
          ELSE DestMin(d)..DestMax(d))
    ELSE {Wrap(d, src.v)}

ValueOutOfRange == "VALUE_IS_OUT_OF_RANGE_OF_DATA_TYPE"
TypeMismatch    == "TYPE_MISMATCH"

\* std::is_convertible_v<DestType, SrcType> for an integer DestType
IsConvertible(d, src) == src.kind \in {"UInt64", "Int64", "Float64"}

\* the conversion without the round-trip check
staticCastFieldValue_NoCheck(d, src, n) == [res |-> "value", ret |-> n]

staticCastFieldValue(d, src, n) ==
    IF ~equalsOp(DestValue(d, n), src)
    THEN [res |-> ValueOutOfRange, ret |-> 0]
    ELSE [res |-> "value", ret |-> n]

castFieldValue(d, src, n) ==
    IF IsConvertible(d, src)
    THEN staticCastFieldValue(d, src, n)
    ELSE [res |-> TypeMismatch, ret |-> 0]

(***************************************************************************)
(* ProfileEvents                                                           *)
(***************************************************************************)

Events  == 0..(NumEvents - 1)
Threads == 1..NumThreads

CounterMax == Pow2(CounterBits) - 1

\* amounts passed to increment(): the default 1, 2 and the largest size_t
Amounts == {1, 2, CounterMax}

Idle == [pc |-> "idle", event |-> 0, amount |-> 0]

\* an add of 1 whatever the amount
sync_fetch_and_add_One(cs, e, a) == [cs EXCEPT ![e] = (@ + 1) % Pow2(CounterBits)]

\* __sync_fetch_and_add(&counters[event], amount)
sync_fetch_and_add(cs, e, a) == [cs EXCEPT ![e] = (@ + a) % Pow2(CounterBits)]

\* the counters of a process that has not counted anything
CountersInit ==
    /\ counters = [e \in Events |-> 0]
    /\ initial = counters
    /\ thread = [t \in Threads |-> Idle]
    /\ completed = [e \in Events |-> 0]
    /\ issued = 0

(***************************************************************************)
(* The visitors applied to a pair of fields                                *)
(***************************************************************************)

Init ==
    /\ x \in Fields
    /\ rhs \in Fields
    /\ op = "none"
    /\ res = "none"
    /\ ret = 0
    /\ dest = ""
    /\ CountersInit

\* applyVisitor(FieldVisitorAccurateEquals(), x, rhs)
AccurateEquals ==
    /\ op' = "equals"
    /\ res' = FieldVisitorAccurateEquals(x, rhs)
    /\ ret' = 0
    /\ dest' = ""
    /\ UNCHANGED <<x, rhs, pvars>>

\* applyVisitor(FieldVisitorAccurateLess(), x, rhs)
AccurateLess ==
    /\ op' = "less"
    /\ res' = FieldVisitorAccurateLess(x, rhs)
    /\ ret' = 0
    /\ dest' = ""
    /\ UNCHANGED <<x, rhs, pvars>>

\* applyVisitor(FieldVisitorSum(rhs), x)
Sum ==
    /\ x.kind \in SummableKinds => CanGet(x.kind, rhs)
    /\ \E out \in FieldVisitorSum(x, rhs) :
            /\ out.x.v \in -MaxMagnitude..MaxMagnitude \/ ~IsDecimalField(x)
            /\ x' = out.x
            /\ res' = out.res
            /\ op' = "sum"
            /\ ret' = 0
            /\ dest' = ""
            /\ UNCHANGED <<rhs, pvars>>

\* castField<d>(x)
CastField ==
    \E d \in DestTypes :
        \E n \in StaticCast(d, x) :
            LET out == castFieldValue(d, x, n)
            IN  /\ op' = "cast"
                /\ dest' = d
                /\ res' = out.res
                /\ ret' = out.ret
                /\ UNCHANGED <<x, rhs, pvars>>

Next == AccurateEquals \/ AccurateLess \/ Sum \/ CastField

Spec == Init /\ [][Next]_allvars

(***************************************************************************)
(* Threads incrementing the event counters                                 *)
(***************************************************************************)

\* increment() called by thread t
Call(t) ==
    \E e \in Events, a \in Amounts :
        /\ thread[t].pc = "idle"
        /\ issued < MaxCalls
        /\ thread' = [thread EXCEPT ![t] = [pc |-> "increment", event |-> e, amount |-> a]]
        /\ issued' = issued + 1
        /\ UNCHANGED <<counters, initial, completed, vars>>

\* the atomic add of thread t, and its return
Increment(t) ==
    /\ thread[t].pc = "increment"
    /\ counters' = sync_fetch_and_add(counters, thread[t].event, thread[t].amount)
    /\ completed' = [completed EXCEPT ![thread[t].event] = @ + thread[t].amount]
    /\ thread' = [thread EXCEPT ![t] = Idle]
    /\ UNCHANGED <<initial, issued, vars>>

InitCounters ==
    /\ x = NullField
    /\ rhs = NullField
    /\ op = "none"
    /\ res = "none"
    /\ ret = 0
    /\ dest = ""
    /\ counters \in [Events -> {0, 1, CounterMax}]
    /\ initial = counters
    /\ thread = [t \in Threads |-> Idle]
    /\ completed = [e \in Events |-> 0]
    /\ issued = 0

NextCounters == \E t \in Threads : Call(t) \/ Increment(t)

SpecCounters == InitCounters /\ [][NextCounters]_allvars

(***************************************************************************)
(* Properties                                                              *)
(***************************************************************************)

IsBool(r) == r \in {"true", "false"}
IntegerKinds == {"UInt64", "Int64"}
Agg == "AggregateFunctionStateData"

\* C1: FieldVisitorAccurateEquals with a Null operand never signals an error:
\* it returns true for (Null, Null) and false when exactly one operand is Null.
C1_EqualsWithNull ==
    (op = "equals" /\ (x.kind = "Null" \/ rhs.kind = "Null"))
        => res = B(x.kind = "Null" /\ rhs.kind = "Null")

C1_Witness ==
    op = "equals" /\ x.kind = Agg /\ rhs.kind = "Null" /\ res = "false"

\* C2: FieldVisitorAccurateLess with a non-Null left operand and a Null right
\* operand returns false without signalling an error.
C2_LessNonNullNullIsFalse ==
    (op = "less" /\ x.kind # "Null" /\ rhs.kind = "Null") => res = "false"

\* C3: FieldVisitorAccurateLess with a Null left operand never signals an error:
\* it returns true for every non-Null right operand and false for (Null, Null).
C3_LessNullLeft ==
    (op = "less" /\ x.kind = "Null") => res = B(rhs.kind # "Null")

C3_Witness ==
    op = "less" /\ x.kind = "Null" /\ rhs.kind = Agg /\ res = "true"

\* C4 as stated: FieldVisitorAccurateLess on one decimal and one Float64 is
\* constant false, without error, in both operand orders.
C4_LessDecimalFloatBothOrders ==
    (op = "less" /\ ((IsDecimalField(x) /\ rhs.kind = "Float64")
                     \/ (x.kind = "Float64" /\ IsDecimalField(rhs))))
        => res = "false"

\* C4 amended: less(Float64, decimal) is constant false without error, and
\* less(decimal, Float64) signals BadTypeOfField.
C4_LessFloatDecimal ==
    /\ (op = "less" /\ x.kind = "Float64" /\ IsDecimalField(rhs)) => res = "false"
    /\ (op = "less" /\ IsDecimalField(x) /\ rhs.kind = "Float64") => res = BadType

C4_Witness ==
    /\ op = "less"
    /\ x = Float(-2, Finite)
    /\ rhs = F("Decimal64", 1, 0, << >>)
    /\ res = "false"

\* C5 as stated: FieldVisitorAccurateLess signals BadTypeOfField for every pair
\* with at least one aggregate state operand, whatever the other operand is.
C5_LessAggAlwaysThrows ==
    (op = "less" /\ (x.kind = Agg \/ rhs.kind = Agg)) => res = BadType

\* C5 amended: FieldVisitorAccurateLess signals BadTypeOfField for every pair
\* with at least one aggregate state operand, except (Null, aggregate state),
\* which returns true.
C5_LessAggThrowsUnlessNullLeft ==
    (op = "less" /\ (x.kind = Agg \/ rhs.kind = Agg))
        => res = (IF x.kind = "Null" THEN "true" ELSE BadType)

C5_Witness ==
    op = "less" /\ x.kind = Agg /\ rhs = x /\ res = BadType

\* The kind pairs the equals visitor answers with a boolean.
EqualsDefined(a, b) ==
    \/ a.kind = b.kind
    \/ {a.kind, b.kind} \subseteq {"UInt64", "Int64", "Float64"}
    \/ {a.kind, b.kind} = {"String", "UInt128"}
    \/ IsDecimalField(a) /\ IsDecimalField(b)
    \/ IsDecimalField(a) /\ b.kind \in IntegerKinds
    \/ a.kind \in IntegerKinds /\ IsDecimalField(b)
    \/ a.kind = "Null"
    \/ b.kind = "Null"

\* A String / UInt128 pair whose text is not the text of a UUID.
UnparseablePair(a, b) ==
    \/ a.kind = "String" /\ b.kind = "UInt128" /\ ~CanParseUUID(a)
    \/ a.kind = "UInt128" /\ b.kind = "String" /\ ~CanParseUUID(b)

C8_IntegerComparisonExact ==
    (x.kind \in IntegerKinds /\ rhs.kind \in IntegerKinds) =>
        /\ (op = "equals" => res = B(x.v = rhs.v))
        /\ (op = "less" => res = B(x.v < rhs.v))
        /\ (op \in {"equals", "less"} =>
              Cardinality({i \in 1..3 :
                  <<FieldVisitorAccurateEquals(x, rhs),
                    FieldVisitorAccurateLess(x, rhs),
                    FieldVisitorAccurateLess(rhs, x)>>[i] = "true"}) = 1)

C8_Witness ==
    /\ op = "equals"
    /\ x = F("UInt64", UInt64Max, 0, << >>)
    /\ rhs = F("Int64", -1, 0, << >>)
    /\ res = "false"

\* C9: castField to an integer type on a UInt64 / Int64 payload succeeds iff the
\* wrapped conversion equals the original value, that is iff the value lies in
\* the range of the destination type; it then returns the original value, and
\* otherwise signals ValueOutOfRange and returns nothing.
C9_CastExactOrOutOfRange ==
    (op = "cast" /\ x.kind \in IntegerKinds) =>
        /\ (res = "value") <=> (Wrap(dest, x.v) = x.v)
        /\ (res = "value") <=> (x.v \in DestMin(dest)..DestMax(dest))
        /\ res = "value" => ret = x.v
        /\ res # "value" => res = ValueOutOfRange /\ ret = 0

C9_Witness ==
    /\ op = "cast"
    /\ dest = "UInt64"
    /\ x = F("Int64", -1, 0, << >>)
    /\ res = ValueOutOfRange

\* C10: a sum of a UInt64 rhs into a UInt64 x leaves x = (x_old + rhs) mod 2^64,
\* leaves rhs unchanged and returns true iff the new x is non-zero.
C10_SumUInt64Wraps ==
    [][(op' = "sum" /\ x.kind = "UInt64" /\ rhs.kind = "UInt64") =>
          /\ x' = F("UInt64", (x.v + rhs.v) % Pow2(Bits), 0, << >>)
          /\ rhs' = rhs
          /\ res' = B(x'.v # 0)]_vars

C10_Witness ==
    /\ op = "sum"
    /\ x = F("UInt64", 0, 0, << >>)
    /\ rhs.kind = "UInt64"
    /\ rhs.v # 0
    /\ res = "false"

\* C11: FieldVisitorSum on an x of kind Null, String, Array, Tuple, UInt128 or
\* aggregate state signals LogicalError whatever rhs is, returns no boolean and
\* leaves x and rhs unchanged; on an x of kind UInt64, Int64, Float64 or decimal
\* with a rhs of the same kind it returns a boolean and never LogicalError.
C11_SumLogicalError ==
    [][op' = "sum" =>
          IF x.kind \in SummableKinds
          THEN rhs.kind = x.kind /\ IsBool(res') /\ res' # LogicalError
          ELSE res' = LogicalError /\ x' = x /\ rhs' = rhs]_vars

C11_Witness ==
    op = "sum" /\ x.kind = "UInt128" /\ rhs.kind = "UInt64" /\ res = LogicalError

\* C12: under any interleaving of increment() calls by the threads, every
\* counter equals its initial value plus the sum of the amounts of the completed
\* increments on its event, modulo the counter width; a step changes no counter
\* but the one of the event being incremented, and only by adding the amount.
C12_NoLostIncrement ==
    /\ [](\A e \in Events :
            counters[e] = (initial[e] + completed[e]) % Pow2(CounterBits))
    /\ [][\A e \in Events :
            counters'[e] # counters[e] =>
                \E t \in Threads :
                    /\ thread[t].pc = "increment"
                    /\ thread[t].event = e
                    /\ thread'[t].pc = "idle"
                    /\ counters' = [counters EXCEPT
                                      ![e] = (@ + thread[t].amount) % Pow2(CounterBits)]]_allvars

\* an increment is in flight on an event another increment has already counted,
\* and the counter of that event has wrapped around
C12_Witness ==
    \E t \in Threads :
        /\ thread[t].pc = "increment"
        /\ completed[thread[t].event] > 0
        /\ initial[thread[t].event] + completed[thread[t].event] > CounterMax
====
